---- MODULE Spec2Model ----
(***************************************************************************)
(* Cattle Nutrition Advisor (src/app.py): the requirement calculator, the  *)
(* proportional allocation and gap classification, and the session state   *)
(* machine around them (herd lists, calculate, store write, report,        *)
(* rating).                                                                *)
(*                                                                         *)
(* Numbers.  The program computes in binary floating point.  The model     *)
(* computes the same expressions exactly, on integers in fixed units:      *)
(*   weight            kg                 count            animals         *)
(*   milk              0.1 kg/day         fat              0.1 percent     *)
(*   ambient_temp      0.1 degree C       fodder amount    0.1 kg          *)
(*   CP                0.1 percent        ME (feed)        0.01 Mcal/kg    *)
(*   dmi_kg, total_dmi 0.001 kg                                            *)
(*   req_DCP           0.001 g            req_TDN          0.00001 kg      *)
(*   req_ME            0.0001 Mcal        req_water        0.0001 L        *)
(*   total_DCP         0.01 g             total_TDN        1/4400 kg       *)
(*   total_ME          0.001 Mcal                                          *)
(* The columns of the evaluation table are held in their displayed         *)
(* precision: "DMI (kg)" 0.01 kg, DCP 1 g, TDN 0.01 kg, ME 0.01 Mcal,      *)
(* water 0.1 L.  round() is Python's round-half-to-even.                   *)
(***************************************************************************)
EXTENDS Integers, Sequences, FiniteSets, TLC

(***************************************************************************)
(* Reference tables                                                        *)
(***************************************************************************)

\* variant: the groups in the reverse order
groups_reversed ==
    << "Adult Bulls", "Lactating Cows", "Dry Cows", "Pregnant Heifers (last 2 mo)",
       "Heifers (12-24 mo)", "Growing Calves (3-12 mo)", "Calves (0-3 mo)" >>

\* groups = list(MAINTENANCE_REQ.keys()): the fixed order of the seven groups
groups ==
    << "Calves (0-3 mo)", "Growing Calves (3-12 mo)", "Heifers (12-24 mo)",
       "Pregnant Heifers (last 2 mo)", "Dry Cows", "Lactating Cows", "Adult Bulls" >>

GroupNames == { groups[i] : i \in 1..Len(groups) }

\* DCP_g in g, TDN_kg in 0.01 kg, ME_Mcal in 0.1 Mcal, Water_L in L
MAINTENANCE_REQ ==
    [ g \in GroupNames |->
        CASE g = "Calves (0-3 mo)"              -> [DCP_g |-> 80,  TDN_kg |-> 40,  ME_Mcal |-> 15,  Water_L |-> 10]
          [] g = "Growing Calves (3-12 mo)"     -> [DCP_g |-> 270, TDN_kg |-> 210, ME_Mcal |-> 76,  Water_L |-> 25]
          [] g = "Heifers (12-24 mo)"           -> [DCP_g |-> 320, TDN_kg |-> 310, ME_Mcal |-> 112, Water_L |-> 35]
          [] g = "Pregnant Heifers (last 2 mo)" -> [DCP_g |-> 350, TDN_kg |-> 400, ME_Mcal |-> 141, Water_L |-> 45]
          [] g = "Dry Cows"                     -> [DCP_g |-> 300, TDN_kg |-> 370, ME_Mcal |-> 132, Water_L |-> 40]
          [] g = "Lactating Cows"               -> [DCP_g |-> 300, TDN_kg |-> 370, ME_Mcal |-> 132, Water_L |-> 60]
          [] g = "Adult Bulls"                  -> [DCP_g |-> 450, TDN_kg |-> 450, ME_Mcal |-> 162, Water_L |-> 50] ]

\* keyed by fat in 0.1 percent; DCP_g in g, TDN_kg in 0.001 kg, ME_Mcal in
\* 0.01 Mcal, Water_L in 0.1 L, each per kg of milk
MILK_REQUIREMENTS ==
    [ f \in {30, 40, 50, 60, 70, 80} |->
        CASE f = 30 -> [DCP_g |-> 40, TDN_kg |-> 270, ME_Mcal |-> 97,  Water_L |-> 40]
          [] f = 40 -> [DCP_g |-> 45, TDN_kg |-> 315, ME_Mcal |-> 113, Water_L |-> 45]
          [] f = 50 -> [DCP_g |-> 51, TDN_kg |-> 370, ME_Mcal |-> 128, Water_L |-> 50]
          [] f = 60 -> [DCP_g |-> 57, TDN_kg |-> 410, ME_Mcal |-> 136, Water_L |-> 50]
          [] f = 70 -> [DCP_g |-> 63, TDN_kg |-> 460, ME_Mcal |-> 154, Water_L |-> 50]
          [] f = 80 -> [DCP_g |-> 69, TDN_kg |-> 510, ME_Mcal |-> 180, Water_L |-> 50] ]

\* percent of body weight, in 0.1 percent
DMI_PERCENT ==
    [ g \in GroupNames |->
        CASE g = "Calves (0-3 mo)"              -> 20
          [] g = "Growing Calves (3-12 mo)"     -> 25
          [] g = "Heifers (12-24 mo)"           -> 25
          [] g = "Pregnant Heifers (last 2 mo)" -> 20
          [] g = "Dry Cows"                     -> 20
          [] g = "Lactating Cows"               -> 30
          [] g = "Adult Bulls"                  -> 20 ]

DISPLAY_GROUP_NAMES ==
    [ g \in GroupNames |->
        CASE g = "Calves (0-3 mo)"              -> "Calves"
          [] g = "Growing Calves (3-12 mo)"     -> "Growing Calves"
          [] g = "Heifers (12-24 mo)"           -> "Heifers"
          [] g = "Pregnant Heifers (last 2 mo)" -> "Pregnant Heifers"
          [] g = "Dry Cows"                     -> "Dry Cows"
          [] g = "Lactating Cows"               -> "Lactating Cows"
          [] g = "Adult Bulls"                  -> "Adult Bulls" ]

\* fodder_df = pd.read_excel("Fodder and Nutrients.xlsx"): Ingredient -> CP
\* (0.1 percent), ME (0.01 Mcal/kg).  The workbook is data outside the
\* source; these are sample rows.
fodder_df ==
    [ f \in {"Sorghum stover", "Cottonseed cake"} |->
        IF f = "Sorghum stover" THEN [CP |-> 63,  ME |-> 185]
                                ELSE [CP |-> 396, ME |-> 265] ]

available_ingredients == DOMAIN fodder_df

(***************************************************************************)
(* State                                                                   *)
(***************************************************************************)

VARIABLES
    group_data,        \* st.session_state[f'{group}_data'], one list per group
    fodder_amounts,    \* fodder -> kg entered, over the selected fodders
    water_available,   \* the water widget
    ambient_temp,      \* the temperature widget
    calculated,        \* st.session_state.calculated
    calculation_data,  \* st.session_state.calculation_data
    farmer_id,         \* N of st.session_state.farmer_id = "Farmer N", 0 while not set
    selected_rating,   \* st.session_state.selected_rating, -1 while not set
    db,                \* the 'farmers' collection: N of "Farmer N" -> document
    page,              \* what the last script run rendered
    calc,              \* the locals of the last run of the calculation block
    tie_break,         \* how round() settles an exact decimal tie (see RoundHalfEven)
    gap_error,         \* the side of a threshold a float gap lands on (see gap_percent)
    sessions,          \* several sessions at the store: each one's place in lines 609-632
    req_pair,          \* two sub-groups, each with a temperature (ReqSpec)
    req_result         \* the requirement computed for each of the two

vars == << group_data, fodder_amounts, water_available, ambient_temp, calculated,
           calculation_data, farmer_id, selected_rating, db, page, calc, tie_break, gap_error, sessions,
           req_pair, req_result >>

(***************************************************************************)
(* Arithmetic helpers                                                      *)
(***************************************************************************)

\* Python round() of the non-negative rational n/d to an integer.  Off a tie
\* it is the nearest integer.  On an exact decimal tie Python rounds the binary
\* value it holds, which lies on the tie (then to the even neighbour) or just
\* to one side of it; which one is a matter of the floating-point error of the
\* expression, so the direction is a parameter of the run, the same for the
\* whole behaviour.
TieBreaks == {"even", "up", "down"}

RoundHalfEven(n, d) ==
    LET q == n \div d
        r == n % d
    IN  IF 2 * r < d THEN q
        ELSE IF 2 * r > d THEN q + 1
        ELSE IF tie_break = "down" THEN q
        ELSE IF tie_break = "up" THEN q + 1
        ELSE IF q % 2 = 0 THEN q ELSE q + 1

Abs(x) == IF x < 0 THEN -x ELSE x


(***************************************************************************)
(* Requirement of one sub-group (lines 478-540)                            *)
(***************************************************************************)

IsLactating(group) == group = "Lactating Cows"

\* variant: a fat percent without a row takes the 3% row
milk_req_fallback_3(fat_pct) ==
    IF fat_pct \in DOMAIN MILK_REQUIREMENTS
    THEN MILK_REQUIREMENTS[fat_pct]
    ELSE MILK_REQUIREMENTS[30]

\* lines 498-508: the row of the milk table for fat_pct, else the 5% values
milk_req(fat_pct) ==
    IF fat_pct \in DOMAIN MILK_REQUIREMENTS
    THEN MILK_REQUIREMENTS[fat_pct]
    ELSE [DCP_g |-> 51, TDN_kg |-> 370, ME_Mcal |-> 128, Water_L |-> 50]

\* variant: the bonus ends a day early
parturition_factor_before_21(days_in_milk) == IF days_in_milk < 21 THEN 12 ELSE 10

\* lines 510-512, in tenths: 1.0 -> 10, 1.2 -> 12
parturition_factor(days_in_milk) == IF days_in_milk <= 21 THEN 12 ELSE 10

\* variant: the temperature term without its threshold
water_increase_unguarded(group, temp, count) ==
    LET temp_diff == temp - 250
        rate == IF IsLactating(group) THEN 65 ELSE 30
    IN  (temp_diff * rate * count * 1000) \div 40

\* lines 519-521 and 533-535: (temp_diff / 4) * rate * count with rate 6.5
\* (lactating) or 3; temp_diff in 0.1 degree, result in 0.0001 L
water_increase(group, temp, count) ==
    IF temp > 250
    THEN LET temp_diff == temp - 250
             rate == IF IsLactating(group) THEN 65 ELSE 30
         IN  (temp_diff * rate * count * 1000) \div 40
    ELSE 0

\* lines 517 and 531, before the temperature term, in 0.0001 L
base_water(group, sub_group) ==
    IF IsLactating(group)
    THEN (MAINTENANCE_REQ[group].Water_L * 100
            + milk_req(sub_group.fat).Water_L * sub_group.milk) * sub_group.count * 100
    ELSE MAINTENANCE_REQ[group].Water_L * sub_group.count * 10000

\* variant: a flat 10 L per animal above 25 degrees, whatever the temperature
req_water_flat_penalty(group, sub_group, temp) ==
    base_water(group, sub_group) + (IF temp > 250 THEN 100000 * sub_group.count ELSE 0)

\* lines 517-522 and 531-536
req_water(group, sub_group, temp) ==
    base_water(group, sub_group) + water_increase(group, temp, sub_group.count)

\* variant: the milk term of DCP left out of the count
req_DCP_milk_uncounted(group, sub_group) ==
    IF IsLactating(group)
    THEN (MAINTENANCE_REQ[group].DCP_g * 100 * sub_group.count
            + milk_req(sub_group.fat).DCP_g * sub_group.milk * 10)
            * parturition_factor(sub_group.dim)
    ELSE MAINTENANCE_REQ[group].DCP_g * sub_group.count * 1000

\* lines 514 and 528, in 0.001 g
req_DCP(group, sub_group) ==
    IF IsLactating(group)
    THEN (MAINTENANCE_REQ[group].DCP_g * 100 + milk_req(sub_group.fat).DCP_g * sub_group.milk * 10)
            * sub_group.count * parturition_factor(sub_group.dim)
    ELSE MAINTENANCE_REQ[group].DCP_g * sub_group.count * 1000

\* lines 515 and 529, in 0.00001 kg
req_TDN(group, sub_group) ==
    IF IsLactating(group)
    THEN (MAINTENANCE_REQ[group].TDN_kg * 100 + milk_req(sub_group.fat).TDN_kg * sub_group.milk)
            * sub_group.count * parturition_factor(sub_group.dim)
    ELSE MAINTENANCE_REQ[group].TDN_kg * sub_group.count * 1000

\* lines 516 and 530, in 0.0001 Mcal
req_ME(group, sub_group) ==
    IF IsLactating(group)
    THEN (MAINTENANCE_REQ[group].ME_Mcal * 100 + milk_req(sub_group.fat).ME_Mcal * sub_group.milk)
            * sub_group.count * parturition_factor(sub_group.dim)
    ELSE MAINTENANCE_REQ[group].ME_Mcal * sub_group.count * 1000

\* variant: the intake in whole kilograms
dmi_kg_whole(group, sub_group) ==
    ((DMI_PERCENT[group] * sub_group.weight * sub_group.count) \div 1000) * 1000

\* lines 524 and 538: (DMI_PERCENT / 100) * avg_weight * count, in 0.001 kg
dmi_kg(group, sub_group) == DMI_PERCENT[group] * sub_group.weight * sub_group.count

\* lines 526 and 540: the f-string label, as the tuple of what it prints
group_label(group, sub_idx, sub_group) ==
    IF IsLactating(group)
    THEN << DISPLAY_GROUP_NAMES[group], sub_idx + 1, sub_group.weight,
            sub_group.milk, sub_group.fat, sub_group.dim >>
    ELSE << DISPLAY_GROUP_NAMES[group], sub_idx + 1, sub_group.weight >>

\* the loop's locals for one sub-group, before any rounding
SubGroupReq(group, sub_idx, sub_group, temp) ==
    [ group     |-> group,
      sub_group |-> sub_group,
      label     |-> group_label(group, sub_idx, sub_group),
      req_DCP   |-> req_DCP(group, sub_group),
      req_TDN   |-> req_TDN(group, sub_group),
      req_ME    |-> req_ME(group, sub_group),
      req_water |-> req_water(group, sub_group, temp),
      dmi_kg    |-> dmi_kg(group, sub_group) ]

\* lines 545-554: the row appended to evaluation_data, rounded as displayed
EvalRow(q) ==
    [ Group         |-> q.label,
      Count         |-> q.sub_group.count,
      Avg_Weight_kg |-> q.sub_group.weight,
      DMI_kg        |-> RoundHalfEven(q.dmi_kg, 10),
      DCP_Req_g     |-> RoundHalfEven(q.req_DCP, 1000),
      TDN_Req_kg    |-> RoundHalfEven(q.req_TDN, 1000),
      ME_Req_Mcal   |-> RoundHalfEven(q.req_ME, 100),
      Water_Req_L   |-> RoundHalfEven(q.req_water, 1000) ]

\* lines 477-480: the sub-groups of one group from position i on, skipping
\* count = 0 (sub_idx is the 0-based position in the list)
RECURSIVE GroupReqs(_, _, _, _)
GroupReqs(group, lst, i, temp) ==
    IF i > Len(lst) THEN << >>
    ELSE (IF lst[i].count = 0 THEN << >>
          ELSE << SubGroupReq(group, i - 1, lst[i], temp) >>)
         \o GroupReqs(group, lst, i + 1, temp)

\* line 474: for group in groups, from the k-th group on
RECURSIVE HerdReqs(_, _, _)
HerdReqs(gd, k, temp) ==
    IF k > Len(groups) THEN << >>
    ELSE GroupReqs(groups[k], gd[groups[k]], 1, temp) \o HerdReqs(gd, k + 1, temp)

(***************************************************************************)
(* Pooled supply, allocation, recommendations (lines 451-466, 556-591)     *)
(***************************************************************************)

\* variant: a fodder the table does not list is passed over
FedFodders_listed(amounts) ==
    { f \in DOMAIN amounts : amounts[f] > 0 /\ f \in DOMAIN fodder_df }

\* line 457: the fodders the supply loop reads from the table
FedFodders(amounts) == { f \in DOMAIN amounts : amounts[f] > 0 }

\* line 461: (CP / 100) * actual_dm * 1000 * 0.70, in 0.01 g
DCP_g(f, amt_kg) == (fodder_df[f].CP * amt_kg * 1000 * 70) \div 10000

\* line 466: ME_Mcal * actual_dm, in 0.001 Mcal
ME_supplied(f, amt_kg) == fodder_df[f].ME * amt_kg

\* line 463: (ME_Mcal * actual_dm) / 4.4, in 1/4400 kg
TDN_kg(f, amt_kg) == fodder_df[f].ME * amt_kg

\* lines 452-466: the three running totals over the fodders of S
RECURSIVE SupplyTotals(_, _)
SupplyTotals(S, amounts) ==
    IF S = {} THEN [ DCP |-> 0, TDN |-> 0, ME |-> 0 ]
    ELSE LET f    == CHOOSE x \in S : TRUE
             rest == SupplyTotals(S \ {f}, amounts)
         IN  [ DCP |-> rest.DCP + DCP_g(f, amounts[f]),
               TDN |-> rest.TDN + TDN_kg(f, amounts[f]),
               ME  |-> rest.ME + ME_supplied(f, amounts[f]) ]

\* variant: the DCP total not reset to 0.0 before the supply loop
total_DCP_not_reset(amounts) ==
    SupplyTotals(FedFodders(amounts), amounts).DCP
        + (IF calc.fault = "none" THEN calc.total_DCP ELSE 0)

total_DCP(amounts) == SupplyTotals(FedFodders(amounts), amounts).DCP
total_TDN(amounts) == SupplyTotals(FedFodders(amounts), amounts).TDN
total_ME(amounts)  == SupplyTotals(FedFodders(amounts), amounts).ME

RECURSIVE total_dmi(_)
total_dmi(reqs) == IF reqs = << >> THEN 0 ELSE Head(reqs).dmi_kg + total_dmi(Tail(reqs))

RECURSIVE total_water_req(_)
total_water_req(reqs) ==
    IF reqs = << >> THEN 0 ELSE Head(reqs).req_water + total_water_req(Tail(reqs))

\* variant: the DCP share cut off at the gram instead of rounded
DCP_Sup_truncated(x, t_dmi, t_DCP) == (x * t_DCP) \div (10 * t_dmi)

\* lines 559-561: round((x / total_dmi) * total, digits), x the row's
\* "DMI (kg)" column (0.01 kg), t_dmi the unrounded total (0.001 kg)
DCP_Sup(x, t_dmi, t_DCP) == RoundHalfEven(x * t_DCP, 10 * t_dmi)
TDN_Sup(x, t_dmi, t_TDN) == RoundHalfEven(5 * x * t_TDN, 22 * t_dmi)
ME_Sup(x, t_dmi, t_ME)   == RoundHalfEven(x * t_ME, t_dmi)

WithSupply(row, t_dmi, t_DCP, t_TDN, t_ME) ==
    [ Group         |-> row.Group,
      Count         |-> row.Count,
      Avg_Weight_kg |-> row.Avg_Weight_kg,
      DMI_kg        |-> row.DMI_kg,
      DCP_Req_g     |-> row.DCP_Req_g,
      TDN_Req_kg    |-> row.TDN_Req_kg,
      ME_Req_Mcal   |-> row.ME_Req_Mcal,
      Water_Req_L   |-> row.Water_Req_L,
      DCP_Sup_g     |-> DCP_Sup(row.DMI_kg, t_dmi, t_DCP),
      TDN_Sup_kg    |-> TDN_Sup(row.DMI_kg, t_dmi, t_TDN),
      ME_Sup_Mcal   |-> ME_Sup(row.DMI_kg, t_dmi, t_ME) ]

\* lines 569 and 577: gap_percent = ((sup - req) / req) * 100, a float.  It is
\* held as the fraction num/den that the expression approximates, and in err
\* the side of the fraction the float lies on (-1 below, 0 on it, 1 above)
\* when the fraction is exactly -10 or 10; anywhere else the float is on the
\* same side of both thresholds as the fraction.
gap_percent(sup, req, err) ==
    [ num |-> (sup - req) * 100,
      den |-> req,
      err |-> IF Abs(sup - req) * 10 = req THEN err ELSE 0 ]

GapErrors == {-1, 0, 1}

\* gap < k and gap > k for a whole number k
GapLess(gap, k) == gap.num < k * gap.den \/ (gap.num = k * gap.den /\ gap.err < 0)

GapGreater(gap, k) == gap.num > k * gap.den \/ (gap.num = k * gap.den /\ gap.err > 0)

\* variant: the two comparisons inclusive
gap_status_inclusive(gap) ==
    IF ~GapGreater(gap, -10) THEN "Deficit"
    ELSE IF ~GapLess(gap, 10) THEN "Excess"
    ELSE "Adequate"

\* lines 570-575 and 578-583
gap_status(gap) ==
    IF GapLess(gap, -10) THEN "Deficit"
    ELSE IF GapGreater(gap, 10) THEN "Excess"
    ELSE "Adequate"

\* lines 571-575 and 579-583: the text of the cell, the status and
\* f"{abs(gap):.1f}" in 0.1 percent
gap_rec(gap) ==
    LET status == gap_status(gap)
    IN  IF status = "Adequate" THEN << "Adequate" >>
        ELSE << status, RoundHalfEven(Abs(gap.num) * 10, gap.den) >>

\* lines 566-583: the two gaps of a row.  The DCP columns hold whole numbers
\* (round(x, 0)): their difference is exact, and a quotient of exactly -0.1 or
\* 0.1 times 100 rounds to exactly -10.0 or 10.0.  The TDN columns hold two
\* decimals and their difference carries an error: (1.89 - 2.1) / 2.1 * 100 is
\* -10.000000000000009 and (2.31 - 2.1) / 2.1 * 100 is 9.999999999999998.
Gaps(row) ==
    [ DCP |-> gap_percent(row.DCP_Sup_g, row.DCP_Req_g, 0),
      TDN |-> gap_percent(row.TDN_Sup_kg, row.TDN_Req_kg, gap_error) ]

\* lines 585-589
Recommendation(row) ==
    [ Group       |-> row.Group,
      Protein_DCP |-> gap_rec(Gaps(row).DCP),
      Energy_TDN  |-> gap_rec(Gaps(row).TDN) ]

(***************************************************************************)
(* The calculation block (lines 451-606) as a function of its inputs.      *)
(* fault names the exception that ends it, "none" when it runs through.    *)
(***************************************************************************)

Faulted(name) == [ fault |-> name ]

Calculation(gd, amounts, water, temp, animals) ==
    LET reqs  == HerdReqs(gd, 1, temp)
        t_dmi == total_dmi(reqs)
        t_DCP == total_DCP(amounts)
        t_TDN == total_TDN(amounts)
        t_ME  == total_ME(amounts)
        eval  == [ i \in 1..Len(reqs) |-> WithSupply(EvalRow(reqs[i]), t_dmi, t_DCP, t_TDN, t_ME) ]
    IN  IF \E f \in FedFodders(amounts) : f \notin DOMAIN fodder_df
        THEN Faulted("IndexError")         \* line 458: .iloc[0] of no rows
        ELSE IF reqs = << >>
        THEN Faulted("KeyError")           \* line 559: no "DMI (kg)" column
        ELSE IF t_dmi = 0
        THEN Faulted("ZeroDivisionError")  \* line 559: x / total_dmi
        ELSE [ fault           |-> "none",
               reqs            |-> reqs,
               df_eval         |-> eval,
               gaps            |-> [ i \in 1..Len(reqs) |-> Gaps(eval[i]) ],
               rec_df          |-> [ i \in 1..Len(reqs) |-> Recommendation(eval[i]) ],
               total_DCP       |-> t_DCP,
               total_TDN       |-> t_TDN,
               total_ME        |-> t_ME,
               total_dmi       |-> t_dmi,
               total_water_req |-> total_water_req(reqs),
               water_available |-> water,
               ambient_temp    |-> temp,
               total_animals   |-> animals,
               fodder_amounts  |-> amounts ]

(***************************************************************************)
(* Session helpers                                                         *)
(***************************************************************************)

selected_fodders == DOMAIN fodder_amounts

\* lines 99-101
EmptyHerd == [ g \in GroupNames |-> << >> ]

\* lines 109-110
add_animal_to_group(gd, group, data) == [ gd EXCEPT ![group] = Append(@, data) ]

\* variant: the last entry takes the place of the one removed
remove_animal_swapping_last(gd, group, index) ==
    [ gd EXCEPT ![group] =
        IF index + 1 = Len(@) THEN SubSeq(@, 1, index)
        ELSE [ SubSeq(@, 1, Len(@) - 1) EXCEPT ![index + 1] = gd[group][Len(gd[group])] ] ]

\* lines 113-114: list.pop(index), index 0-based
remove_animal_from_group(gd, group, index) ==
    [ gd EXCEPT ![group] = SubSeq(@, 1, index) \o SubSeq(@, index + 2, Len(@)) ]

RECURSIVE CountSum(_)
CountSum(group_data_list) ==
    IF group_data_list = << >> THEN 0
    ELSE Head(group_data_list).count + CountSum(Tail(group_data_list))

RECURSIVE AnimalsFrom(_, _)
AnimalsFrom(gd, k) ==
    IF k > Len(groups) THEN 0 ELSE CountSum(gd[groups[k]]) + AnimalsFrom(gd, k + 1)

\* lines 375-378
total_animals == AnimalsFrom(group_data, 1)

NotRun == [ fault |-> "not run" ]

NoPair == << >>

NoSessions == << >>

NoPage == [ clicked |-> "none", messages |-> {}, sections |-> {} ]

(***************************************************************************)
(* Spec: one session.  Every action is one run of the script (a widget     *)
(* event reruns it from the top) and leaves in page what that run          *)
(* rendered.  The water and temperature widgets stay at their defaults     *)
(* here and the two rounding parameters at one value; CalcSpec varies the  *)
(* temperature and the rounding.                                           *)
(***************************************************************************)

MaxSub == 1
MaxDocs == 1

AddChoices ==
    { << "Growing Calves (3-12 mo)", [weight |-> 100, count |-> 1] >>,
      << "Lactating Cows", [weight |-> 450, milk |-> 100, fat |-> 50, dim |-> 60, count |-> 1] >> }

\* the amounts typed: both fodders can be selected, one of them is ever fed
AmountChoices == { << "Sorghum stover", 0 >>, << "Sorghum stover", 45 >> }

\* the star clicked, of range(5) at line 817
Stars == {5}

RECURSIVE SubGroupsFrom(_, _)
SubGroupsFrom(gd, k) ==
    IF k > Len(groups) THEN 0 ELSE Len(gd[groups[k]]) + SubGroupsFrom(gd, k + 1)

Init ==
    /\ group_data = EmptyHerd          \* lines 99-101
    /\ fodder_amounts = << >>          \* line 419, nothing selected
    /\ water_available = 5000          \* line 395
    /\ ambient_temp = 300              \* line 404
    /\ calculated = FALSE              \* line 94
    /\ calculation_data = << >>        \* line 96, None
    /\ farmer_id = 0
    /\ selected_rating = -1
    /\ db = << >>
    /\ page = NoPage
    /\ calc = NotRun
    /\ tie_break = "even"
    /\ gap_error = 0
    /\ sessions = NoSessions
    /\ req_pair = NoPair
    /\ req_result = NoPair

\* line 637: calculated and calculation_data (None and {} are falsy)
ResultsShown(flag, data) == flag /\ data # << >>

\* lines 637-831: the sections the run renders.  generate_pdf_report is called
\* at line 798 outside any try: when it raises, the run ends there, with the
\* sections above it rendered and the exception shown.
Rendered(flag, data, pdf_ok) ==
    IF ~ResultsShown(flag, data) THEN {}
    ELSE {"summary", "evaluation", "recommendations"}
         \cup (IF pdf_ok THEN {"download", "rating"} ELSE {})

RenderMessages(flag, data, pdf_ok) ==
    IF ResultsShown(flag, data) /\ ~pdf_ok THEN {"exception: generate_pdf_report"} ELSE {}

\* the page of a run, and lines 814-815 on the way
Render(clicked, messages, flag, data, pdf_ok) ==
    /\ page' = [ clicked  |-> clicked,
                 messages |-> messages \cup RenderMessages(flag, data, pdf_ok),
                 sections |-> Rendered(flag, data, pdf_ok) ]
    /\ selected_rating' =
           IF "rating" \in Rendered(flag, data, pdf_ok) /\ selected_rating = -1
           THEN 0 ELSE selected_rating

\* a run in which no button was clicked
Rerun(pdf_ok) == Render("none", {}, calculated, calculation_data, pdf_ok)

\* lines 128-134 (and the other six forms): append, then st.rerun()
AddAnimal(group, data) ==
    /\ SubGroupsFrom(group_data, 1) < MaxSub
    /\ group_data' = add_animal_to_group(group_data, group, data)
    /\ \E pdf_ok \in BOOLEAN : Rerun(pdf_ok)
    /\ UNCHANGED << fodder_amounts, water_available, ambient_temp, calculated,
                    calculation_data, farmer_id, db, calc, tie_break, gap_error, sessions, req_pair, req_result >>

\* lines 145-147 (and the other six lists): pop, then st.rerun()
RemoveAnimal(group, index) ==
    /\ index < Len(group_data[group])
    /\ group_data' = remove_animal_from_group(group_data, group, index)
    /\ \E pdf_ok \in BOOLEAN : Rerun(pdf_ok)
    /\ UNCHANGED << fodder_amounts, water_available, ambient_temp, calculated,
                    calculation_data, farmer_id, db, calc, tie_break, gap_error, sessions, req_pair, req_result >>

\* lines 417-428: a fodder newly selected gets its number_input at 0.0
SelectFodder(f) ==
    /\ f \notin selected_fodders
    /\ fodder_amounts' = [ x \in selected_fodders \cup {f} |->
                             IF x = f THEN 0 ELSE fodder_amounts[x] ]
    /\ \E pdf_ok \in BOOLEAN : Rerun(pdf_ok)
    /\ UNCHANGED << group_data, water_available, ambient_temp, calculated,
                    calculation_data, farmer_id, db, calc, tie_break, gap_error, sessions, req_pair, req_result >>

DeselectFodder(f) ==
    /\ f \in selected_fodders
    /\ fodder_amounts' = [ x \in selected_fodders \ {f} |-> fodder_amounts[x] ]
    /\ \E pdf_ok \in BOOLEAN : Rerun(pdf_ok)
    /\ UNCHANGED << group_data, water_available, ambient_temp, calculated,
                    calculation_data, farmer_id, db, calc, tie_break, gap_error, sessions, req_pair, req_result >>

\* line 427
SetAmount(f, amt) ==
    /\ f \in selected_fodders
    /\ amt # fodder_amounts[f]
    /\ fodder_amounts' = [ fodder_amounts EXCEPT ![f] = amt ]
    /\ \E pdf_ok \in BOOLEAN : Rerun(pdf_ok)
    /\ UNCHANGED << group_data, water_available, ambient_temp, calculated,
                    calculation_data, farmer_id, db, calc, tie_break, gap_error, sessions, req_pair, req_result >>

\* variant: the check of the amounts left out
ValidationError_without_amounts(animals, amounts) ==
    IF animals = 0 THEN "Please enter at least one animal."
    ELSE IF DOMAIN amounts = {} THEN "Please select at least one fodder."
    ELSE ""

\* lines 439-449: the message of the first check that fails, "" when none does
ValidationError(animals, amounts) ==
    IF animals = 0 THEN "Please enter at least one animal."
    ELSE IF DOMAIN amounts = {} THEN "Please select at least one fodder."
    ELSE IF \A f \in DOMAIN amounts : amounts[f] = 0
         THEN "Please enter at least one fodder amount greater than 0."
    ELSE ""

ValidationErrors ==
    { "Please enter at least one animal.", "Please select at least one fodder.",
      "Please enter at least one fodder amount greater than 0." }

\* lines 595-606
Snapshot(result) ==
    [ df_eval         |-> result.df_eval,
      rec_df          |-> result.rec_df,
      total_DCP       |-> result.total_DCP,
      total_TDN       |-> result.total_TDN,
      total_ME        |-> result.total_ME,
      total_water_req |-> result.total_water_req,
      water_available |-> result.water_available,
      ambient_temp    |-> result.ambient_temp,
      total_animals   |-> result.total_animals,
      fodder_amounts  |-> result.fodder_amounts ]

\* variant: the result not kept in the session
SaveToSession_dropped(result) ==
    /\ calculated' = FALSE
    /\ calculation_data' = << >>

\* lines 594-606
SaveToSession(result) ==
    /\ calculated' = TRUE
    /\ calculation_data' = Snapshot(result)

\* lines 622-627, without the timestamp and the animal_details (the herd
\* lists again): what tells one document from another here is its key
data_to_save ==
    [ total_animals    |-> total_animals,
      fodder_selection |-> [ f \in FedFodders(fodder_amounts) |-> fodder_amounts[f] ] ]

\* lines 610-613
farmer_number == Cardinality(DOMAIN db) + 1

\* lines 437-449: a check fails, the message is shown and st.stop() ends the run
CalculateRejected ==
    /\ ValidationError(total_animals, fodder_amounts) # ""
    /\ page' = [ clicked  |-> "calculate",
                 messages |-> { ValidationError(total_animals, fodder_amounts) },
                 sections |-> {} ]
    /\ UNCHANGED << group_data, fodder_amounts, water_available, ambient_temp, calculated,
                    calculation_data, farmer_id, selected_rating, db, calc, tie_break, gap_error, sessions,
                    req_pair, req_result >>

\* lines 451-632 and the display that follows: the block, the save to the
\* session, the write to the store inside try/except, then the results
CalculateRun(write_ok, pdf_ok) ==
    LET result == Calculation(group_data, fodder_amounts, water_available, ambient_temp,
                              total_animals)
    IN  /\ ValidationError(total_animals, fodder_amounts) = ""
        /\ write_ok => Cardinality(DOMAIN db) < MaxDocs
        /\ calc' = result
        /\ IF result.fault # "none"
           THEN /\ page' = [ clicked  |-> "calculate",
                             messages |-> { "exception: " \o result.fault },
                             sections |-> {} ]
                /\ UNCHANGED << calculated, calculation_data, farmer_id, selected_rating, db >>
           ELSE /\ SaveToSession(result)
                /\ IF write_ok
                   THEN /\ db' = [ n \in DOMAIN db \cup {farmer_number} |->
                                     IF n = farmer_number THEN data_to_save ELSE db[n] ]
                        /\ farmer_id' = farmer_number
                   ELSE UNCHANGED << db, farmer_id >>
                /\ Render("calculate",
                          IF write_ok THEN {} ELSE {"Error saving to Firebase"},
                          TRUE, Snapshot(result), pdf_ok)
        /\ UNCHANGED << group_data, fodder_amounts, water_available, ambient_temp,
                        tie_break, gap_error, sessions, req_pair, req_result >>

Calculate == CalculateRejected \/ \E write_ok, pdf_ok \in BOOLEAN : CalculateRun(write_ok, pdf_ok)

\* lines 817-831, reached only when the run gets past line 798
Rate(stars, pdf_ok, update_ok) ==
    /\ "rating" \in page.sections
    /\ IF ~pdf_ok
       THEN /\ Render("star", {}, calculated, calculation_data, FALSE)
            /\ UNCHANGED db
       ELSE /\ page' = [ clicked  |-> "star",
                         messages |-> IF farmer_id = 0 THEN {}
                                      ELSE IF update_ok /\ farmer_id \in DOMAIN db
                                           THEN {"Thank you for your rating"}
                                           ELSE {"Error saving rating"},
                         sections |-> Rendered(calculated, calculation_data, TRUE) ]
            /\ selected_rating' = stars
            /\ db' = IF farmer_id # 0 /\ update_ok /\ farmer_id \in DOMAIN db
                     THEN [ db EXCEPT ![farmer_id] = ("rating" :> stars) @@ @ ]
                     ELSE db
    /\ UNCHANGED << group_data, fodder_amounts, water_available, ambient_temp, calculated,
                    calculation_data, farmer_id, calc, tie_break, gap_error, sessions, req_pair, req_result >>

Next ==
    \/ \E e \in AddChoices : AddAnimal(e[1], e[2])
    \/ \E g \in GroupNames, i \in 0..(MaxSub - 1) : RemoveAnimal(g, i)
    \/ \E f \in available_ingredients : SelectFodder(f)
    \/ \E f \in available_ingredients : DeselectFodder(f)
    \/ \E e \in AmountChoices : SetAmount(e[1], e[2])
    \/ Calculate
    \/ \E i \in Stars, pdf_ok, update_ok \in BOOLEAN : Rate(i, pdf_ok, update_ok)

Spec == Init /\ [][Next]_vars

(***************************************************************************)
(* CalcSpec: the calculation block applied to inputs drawn from bounded    *)
(* sets.  The draws include a sub-group of weight 0 and the empty herd,    *)
(* which the widgets' minima and the validation keep out of a session:     *)
(* they are the block's behaviour when those are bypassed.                 *)
(***************************************************************************)

MaxRows == 2

CalcEntries ==
    { << "Lactating Cows", [weight |-> 450, milk |-> 100, fat |-> 50, dim |-> 60, count |-> 1] >>,
      << "Lactating Cows", [weight |-> 455, milk |-> 105, fat |-> 40, dim |-> 0, count |-> 2] >>,
      << "Growing Calves (3-12 mo)", [weight |-> 100, count |-> 1] >>,
      << "Growing Calves (3-12 mo)", [weight |-> 101, count |-> 1] >>,
      << "Dry Cows", [weight |-> 400, count |-> 1] >>,
      << "Dry Cows", [weight |-> 0, count |-> 1] >>,
      << "Calves (0-3 mo)", [weight |-> 20, count |-> 1] >>,
      << "Growing Calves (3-12 mo)", [weight |-> 100, count |-> 0] >> }

RECURSIVE HerdOf(_)
HerdOf(entries) ==
    IF entries = << >> THEN EmptyHerd
    ELSE LET n == Len(entries)
         IN  add_animal_to_group(HerdOf(SubSeq(entries, 1, n - 1)), entries[n][1], entries[n][2])

CalcHerds == { HerdOf(s) : s \in UNION { [1..n -> CalcEntries] : n \in 0..MaxRows } }

CalcTemps == {200, 250, 300}

CalcAmounts ==
    { [ f \in S |-> IF f = "Sorghum stover" THEN a ELSE b ] :
        S \in {{"Sorghum stover"}, {"Sorghum stover", "Cottonseed cake"}},
        a \in {0, 45, 55}, b \in {0, 25} }

CalcInit ==
    /\ group_data \in CalcHerds
    /\ fodder_amounts \in CalcAmounts
    /\ ambient_temp \in CalcTemps
    /\ water_available = 5000
    /\ calculated = FALSE
    /\ calculation_data = << >>
    /\ farmer_id = 0
    /\ selected_rating = -1
    /\ db = << >>
    /\ page = NoPage
    /\ calc = NotRun
    /\ tie_break \in TieBreaks
    /\ gap_error \in GapErrors
    /\ sessions = NoSessions
    /\ req_pair = NoPair
    /\ req_result = NoPair

\* lines 451-606 on the current inputs
Evaluate ==
    /\ calc' = Calculation(group_data, fodder_amounts, water_available, ambient_temp, total_animals)
    /\ UNCHANGED << group_data, fodder_amounts, water_available, ambient_temp, calculated,
                    calculation_data, farmer_id, selected_rating, db, page, tie_break, gap_error, sessions,
                    req_pair, req_result >>

\* lines 400-407: another temperature for the next evaluation
SetTemp(t) ==
    /\ t # ambient_temp
    /\ ambient_temp' = t
    /\ UNCHANGED << group_data, fodder_amounts, water_available, calculated,
                    calculation_data, farmer_id, selected_rating, db, page, calc, tie_break, gap_error, sessions,
                    req_pair, req_result >>

CalcNext == Evaluate \/ \E t \in CalcTemps : SetTemp(t)

CalcSpec == CalcInit /\ [][CalcNext]_vars

(***************************************************************************)
(* ReqSpec: the requirement of one sub-group (the body of the loop, lines  *)
(* 478-540) applied to two sub-groups, each at its own temperature.        *)
(***************************************************************************)

ReqEntries ==
    { << "Lactating Cows", [weight |-> 450, milk |-> m, fat |-> 50, dim |-> d, count |-> c] >> :
        m \in {5, 100}, d \in {21, 22, 60}, c \in {1, 3} }
    \cup { << "Calves (0-3 mo)", [weight |-> 30, count |-> 2] >>,
           << "Adult Bulls", [weight |-> 500, count |-> 1] >>,
           << "Lactating Cows", [weight |-> 450, milk |-> 100, fat |-> 40, dim |-> 60, count |-> 1] >>,
           << "Lactating Cows", [weight |-> 450, milk |-> 100, fat |-> 45, dim |-> 60, count |-> 1] >> }

ReqTemps == {200, 250, 260, 300}

ReqInputs == { [ group |-> e[1], sub_group |-> e[2], temp |-> t ] : e \in ReqEntries, t \in ReqTemps }

ReqInit ==
    /\ req_pair \in [ first : ReqInputs, second : ReqInputs ]
    /\ req_result = [ first |-> NotRun, second |-> NotRun ]
    /\ group_data = EmptyHerd
    /\ fodder_amounts = << >>
    /\ ambient_temp = 300
    /\ water_available = 5000
    /\ calculated = FALSE
    /\ calculation_data = << >>
    /\ farmer_id = 0
    /\ selected_rating = -1
    /\ db = << >>
    /\ page = NoPage
    /\ calc = NotRun
    /\ tie_break = "even"
    /\ gap_error = 0
    /\ sessions = NoSessions

ReqOf(in) == SubGroupReq(in.group, 0, in.sub_group, in.temp)

EvaluateFirst ==
    /\ req_result.first = NotRun
    /\ req_result' = [ req_result EXCEPT !.first = ReqOf(req_pair.first) ]
    /\ UNCHANGED << group_data, fodder_amounts, water_available, ambient_temp, calculated,
                    calculation_data, farmer_id, selected_rating, db, page, calc, tie_break, gap_error, sessions,
                    req_pair >>

EvaluateSecond ==
    /\ req_result.second = NotRun
    /\ req_result' = [ req_result EXCEPT !.second = ReqOf(req_pair.second) ]
    /\ UNCHANGED << group_data, fodder_amounts, water_available, ambient_temp, calculated,
                    calculation_data, farmer_id, selected_rating, db, page, calc, tie_break, gap_error, sessions,
                    req_pair >>

ReqNext == EvaluateFirst \/ EvaluateSecond

ReqSpec == ReqInit /\ [][ReqNext]_vars

(***************************************************************************)
(* FeedSpec: calculate on a feed selection that can hold a name the table  *)
(* does not list.  The multiselect offers the table's own names only, so   *)
(* this is the calculation's behaviour when that contract is broken.       *)
(***************************************************************************)

FeedNames == {"Sorghum stover", "Unlisted feed"}

FeedAmounts == UNION { [ S -> {0, 45} ] : S \in SUBSET FeedNames }

FeedHerds ==
    { HerdOf(<< << "Growing Calves (3-12 mo)", [weight |-> 100, count |-> 1] >> >>),
      HerdOf(<< << "Lactating Cows", [weight |-> 450, milk |-> 100, fat |-> 50, dim |-> 60, count |-> 1] >> >>) }

FeedInit ==
    /\ group_data \in FeedHerds
    /\ fodder_amounts = << >>
    /\ water_available = 5000
    /\ ambient_temp = 300
    /\ calculated = FALSE
    /\ calculation_data = << >>
    /\ farmer_id = 0
    /\ selected_rating = -1
    /\ db = << >>
    /\ page = NoPage
    /\ calc = NotRun
    /\ tie_break = "even"
    /\ gap_error = 0
    /\ sessions = NoSessions
    /\ req_pair = NoPair
    /\ req_result = NoPair

\* lines 419-428: fodder_amounts as the run builds it from the selection
SubmitAmounts(amounts) ==
    /\ amounts # fodder_amounts
    /\ fodder_amounts' = amounts
    /\ \E pdf_ok \in BOOLEAN : Rerun(pdf_ok)
    /\ UNCHANGED << group_data, water_available, ambient_temp, calculated,
                    calculation_data, farmer_id, db, calc, tie_break, gap_error, sessions, req_pair, req_result >>

FeedNext ==
    \/ \E a \in FeedAmounts : SubmitAmounts(a)
    \/ Calculate

FeedSpec == FeedInit /\ [][FeedNext]_vars

(***************************************************************************)
(* StoreSpec: the save of lines 609-632 run by several sessions against    *)
(* the one store.  Counting the documents (611-612) and writing the        *)
(* document (629) are two requests to the store, with nothing that keeps   *)
(* another session's requests from coming between them.                    *)
(***************************************************************************)

MaxStoreDocs == 2

Sessions == {1, 2}

\* lines 622-627 for session s: the sessions differ in their herds
SessionDoc(s) == [ total_animals |-> s, fodder_selection |-> ("Sorghum stover" :> 45) ]

\* variant: a document that exists is left as it is
set_keeps_existing(store, id, doc) == IF id \in DOMAIN store THEN store ELSE (id :> doc) @@ store

\* line 629: document(farmer_id).set(data_to_save) creates or replaces
set(store, id, doc) == (id :> doc) @@ store

Idle == [ pc |-> "idle", farmer_count |-> 0, farmer_number |-> 0 ]

StoreInit ==
    /\ sessions = [ s \in Sessions |-> [ at |-> Idle, farmer_id |-> 0, saved |-> "none" ] ]
    /\ db = << >>
    /\ group_data = EmptyHerd
    /\ fodder_amounts = << >>
    /\ water_available = 5000
    /\ ambient_temp = 300
    /\ calculated = FALSE
    /\ calculation_data = << >>
    /\ farmer_id = 0
    /\ selected_rating = -1
    /\ page = NoPage
    /\ calc = NotRun
    /\ tie_break = "even"
    /\ gap_error = 0
    /\ req_pair = NoPair
    /\ req_result = NoPair

\* lines 610-614: stream the collection, count, add one
CountDocuments(s) ==
    /\ sessions[s].at.pc = "idle"
    /\ Cardinality(DOMAIN db) < MaxStoreDocs
    /\ sessions' = [ sessions EXCEPT ![s].at =
                        [ pc            |-> "counted",
                          farmer_count  |-> Cardinality(DOMAIN db),
                          farmer_number |-> Cardinality(DOMAIN db) + 1 ] ]
    /\ UNCHANGED << group_data, fodder_amounts, water_available, ambient_temp, calculated,
                    calculation_data, farmer_id, selected_rating, db, page, calc, tie_break,
                    gap_error, req_pair, req_result >>

\* lines 629-630: the write, then the id kept in the session
WriteDocument(s) ==
    /\ sessions[s].at.pc = "counted"
    /\ db' = set(db, sessions[s].at.farmer_number, SessionDoc(s))
    /\ sessions' = [ sessions EXCEPT ![s] =
                        [ at |-> Idle, farmer_id |-> sessions[s].at.farmer_number, saved |-> "ok" ] ]
    /\ UNCHANGED << group_data, fodder_amounts, water_available, ambient_temp, calculated,
                    calculation_data, farmer_id, selected_rating, page, calc, tie_break,
                    gap_error, req_pair, req_result >>

\* lines 631-632: the write raises, the session keeps the id it had
WriteFails(s) ==
    /\ sessions[s].at.pc = "counted"
    /\ sessions' = [ sessions EXCEPT ![s].at = Idle, ![s].saved = "error" ]
    /\ UNCHANGED << group_data, fodder_amounts, water_available, ambient_temp, calculated,
                    calculation_data, farmer_id, selected_rating, db, page, calc, tie_break,
                    gap_error, req_pair, req_result >>

StoreNext ==
    \E s \in Sessions : CountDocuments(s) \/ WriteDocument(s) \/ WriteFails(s)

StoreSpec == StoreInit /\ [][StoreNext]_vars

(***************************************************************************)
(* Claims on the store shared by several sessions (StoreSpec)              *)
(***************************************************************************)

\* C17: a session's identifier is "Farmer N" with N the number of documents
\* it counted plus one; the write that follows puts the session's document
\* under that N whatever the store holds by then, so two sessions that counted
\* the same store hold the same N and the later write replaces the document of
\* the earlier one.
C17_FarmerIdNotUnique ==
    [][ \A s \in Sessions :
            /\ (sessions[s].at.pc = "idle" /\ sessions'[s].at.pc = "counted") =>
                    /\ sessions'[s].at.farmer_count = Cardinality(DOMAIN db)
                    /\ sessions'[s].at.farmer_number = sessions'[s].at.farmer_count + 1
            /\ (sessions[s].at.pc = "counted" /\ sessions'[s].at.pc = "idle"
                    /\ sessions'[s].saved = "ok") =>
                    LET n == sessions[s].at.farmer_number
                    IN  /\ sessions'[s].farmer_id = n
                        /\ DOMAIN db' = DOMAIN db \cup {n}
                        /\ db'[n] = SessionDoc(s)
                        /\ \A m \in DOMAIN db \ {n} : db'[m] = db[m]
                        /\ \A t \in Sessions \ {s} :
                              (sessions[t].at.pc = "counted"
                                  /\ sessions[t].at.farmer_count = sessions[s].at.farmer_count) =>
                                    sessions'[t].at.farmer_number = n ]_vars

\* both sessions counted the empty store and both wrote: both hold "Farmer 1",
\* the store has one document, that of session 2, and none of session 1
C17_Witness ==
    /\ sessions[1].farmer_id = 1
    /\ sessions[2].farmer_id = 1
    /\ sessions[1].saved = "ok"
    /\ sessions[2].saved = "ok"
    /\ sessions[1].at.pc = "idle"
    /\ sessions[2].at.pc = "idle"
    /\ db = (1 :> SessionDoc(2))

(***************************************************************************)
(* HerdSpec: the herd lists edited around calculations, with longer lists  *)
(* than Spec affords.  The feed selection is one fodder with an amount,    *)
(* and the store is out of reach: every write fails.                       *)
(***************************************************************************)

MaxHerd == 3

HerdChoices ==
    { << "Growing Calves (3-12 mo)", [weight |-> 100, count |-> 1] >>,
      << "Growing Calves (3-12 mo)", [weight |-> 101, count |-> 1] >>,
      << "Lactating Cows", [weight |-> 450, milk |-> 100, fat |-> 50, dim |-> 60, count |-> 1] >> }

HerdInit ==
    /\ group_data = EmptyHerd
    /\ fodder_amounts = ("Sorghum stover" :> 45)
    /\ water_available = 5000
    /\ ambient_temp = 300
    /\ calculated = FALSE
    /\ calculation_data = << >>
    /\ farmer_id = 0
    /\ selected_rating = -1
    /\ db = << >>
    /\ page = NoPage
    /\ calc = NotRun
    /\ tie_break = "even"
    /\ gap_error = 0
    /\ sessions = NoSessions
    /\ req_pair = NoPair
    /\ req_result = NoPair

\* lines 128-134 (and the other six forms): append, then st.rerun()
AddEntry(group, data) ==
    /\ SubGroupsFrom(group_data, 1) < MaxHerd
    /\ group_data' = add_animal_to_group(group_data, group, data)
    /\ \E pdf_ok \in BOOLEAN : Rerun(pdf_ok)
    /\ UNCHANGED << fodder_amounts, water_available, ambient_temp, calculated,
                    calculation_data, farmer_id, db, calc, tie_break, gap_error, sessions,
                    req_pair, req_result >>

\* lines 145-147 (and the other six lists): pop, then st.rerun()
RemoveEntry(group, index) ==
    /\ index < Len(group_data[group])
    /\ group_data' = remove_animal_from_group(group_data, group, index)
    /\ \E pdf_ok \in BOOLEAN : Rerun(pdf_ok)
    /\ UNCHANGED << fodder_amounts, water_available, ambient_temp, calculated,
                    calculation_data, farmer_id, db, calc, tie_break, gap_error, sessions,
                    req_pair, req_result >>

HerdNext ==
    \/ \E e \in HerdChoices : AddEntry(e[1], e[2])
    \/ \E g \in GroupNames, i \in 0..(MaxHerd - 1) : RemoveEntry(g, i)
    \/ CalculateRejected
    \/ \E pdf_ok \in BOOLEAN : CalculateRun(FALSE, pdf_ok)

HerdSpec == HerdInit /\ [][HerdNext]_vars

(***************************************************************************)
(* Claims on the herd lists (HerdSpec)                                     *)
(***************************************************************************)

\* lst without its i-th entry (1-based), the others in their order
Without(lst, i) == [ j \in 1..(Len(lst) - 1) |-> IF j < i THEN lst[j] ELSE lst[j + 1] ]

\* the list of one group changes by one entry added at its end, or by one
\* entry taken out with the others kept in their order
EditedAsClaimed(old, new) ==
    \/ Len(new) = Len(old) + 1 /\ SubSeq(new, 1, Len(old)) = old
    \/ \E i \in 1..Len(old) : new = Without(old, i)

\* C18: a run that edits the herd changes the list of one group, by an entry
\* appended at its end or by one entry removed with the order of the rest
\* kept; it leaves the lists of the other groups, calculated and
\* calculation_data as they were, and a result stored earlier is still
\* displayed by that run.
C18_HerdEditFrame ==
    [][ (group_data' # group_data) =>
            /\ \E g \in GroupNames :
                /\ EditedAsClaimed(group_data[g], group_data'[g])
                /\ \A h \in GroupNames \ {g} : group_data'[h] = group_data[h]
            /\ UNCHANGED << calculated, calculation_data >>
            /\ (calculated /\ calculation_data # << >>) =>
                    {"summary", "evaluation", "recommendations"} \subseteq page'.sections ]_vars

\* a result computed on three entries, 100, 101 and 100 kg, is still stored and
\* displayed after the first entry was removed: the list is 101, 100
C18_Witness ==
    /\ page.clicked = "none"
    /\ calculated
    /\ "evaluation" \in page.sections
    /\ Len(calculation_data.df_eval) = 3
    /\ calculation_data.df_eval[1].Group = << "Growing Calves", 1, 100 >>
    /\ calculation_data.df_eval[2].Group = << "Growing Calves", 2, 101 >>
    /\ calculation_data.df_eval[3].Group = << "Growing Calves", 3, 100 >>
    /\ group_data["Growing Calves (3-12 mo)"] =
           << [weight |-> 101, count |-> 1], [weight |-> 100, count |-> 1] >>

(***************************************************************************)
(* Claims on the calculation block (CalcSpec)                              *)
(***************************************************************************)

RECURSIVE SumCol(_, _)
SumCol(df, col) == IF df = << >> THEN 0 ELSE Head(df)[col] + SumCol(Tail(df), col)

\* the sum over the rows of |displayed DMI - computed DMI|, in 0.001 kg
RECURSIVE DmiRoundingError(_, _)
DmiRoundingError(df, reqs) ==
    IF df = << >> THEN 0
    ELSE Abs(10 * Head(df).DMI_kg - Head(reqs).dmi_kg) + DmiRoundingError(Tail(df), Tail(reqs))

\* |sum of the column - total / k| <= rows / 2 + (DMI rounding error / total
\* DMI) * total / k, with the total in units of 1/k of the column's unit; the
\* inequality is multiplied through by 2 * k * total_dmi.
WithinRounding(c, col, k, total) ==
    2 * c.total_dmi * Abs(k * SumCol(c.df_eval, col) - total)
        <= k * c.total_dmi * Len(c.df_eval) + 2 * total * DmiRoundingError(c.df_eval, c.reqs)

\* C1: after a calculation that ran through (total DMI > 0), the allocated
\* DCP, TDN and ME of the rows each add up to the pooled total, off by no more
\* than half a displayed unit per row plus the share of the pooled total that
\* the rounding of the rows' DMI moves.
C1_AllocationConservesSupply ==
    calc.fault = "none" =>
        /\ calc.total_dmi > 0
        /\ WithinRounding(calc, "DCP_Sup_g", 100, calc.total_DCP)
        /\ WithinRounding(calc, "TDN_Sup_kg", 44, calc.total_TDN)
        /\ WithinRounding(calc, "ME_Sup_Mcal", 10, calc.total_ME)

\* two rows, a rounded DMI, and sums that differ from the pooled totals
C1_Witness ==
    /\ calc.fault = "none"
    /\ Len(calc.df_eval) >= 2
    /\ DmiRoundingError(calc.df_eval, calc.reqs) > 0
    /\ calc.total_DCP > 0
    /\ 100 * SumCol(calc.df_eval, "DCP_Sup_g") # calc.total_DCP
    /\ 44 * SumCol(calc.df_eval, "TDN_Sup_kg") # calc.total_TDN

\* the classes as claimed, for the gap of one cell
ClassifiedAsClaimed(rec, gap, sup, req) ==
    /\ req > 0
    /\ gap.num = (sup - req) * 100 /\ gap.den = req
    /\ rec[1] = "Deficit" <=> GapLess(gap, -10)
    /\ rec[1] = "Excess" <=> GapGreater(gap, 10)
    /\ rec[1] = "Adequate" <=> (~GapLess(gap, -10) /\ ~GapGreater(gap, 10))
    /\ (Abs(gap.num) = 10 * gap.den /\ gap.err = 0) => rec = << "Adequate" >>

C2_UpperBoundary ==
    /\ calc.fault = "none"
    /\ \E i \in 1..Len(calc.df_eval) :
        /\ 10 * calc.df_eval[i].DCP_Sup_g = 11 * calc.df_eval[i].DCP_Req_g
        /\ calc.rec_df[i].Protein_DCP = << "Adequate" >>

\* TDN figures 10% apart whose float gap falls below -10: it reads Deficit
C2_FloatBoundary ==
    /\ calc.fault = "none"
    /\ \E j \in 1..Len(calc.df_eval) :
        /\ 10 * calc.df_eval[j].TDN_Sup_kg = 9 * calc.df_eval[j].TDN_Req_kg
        /\ calc.gaps[j].TDN.err < 0
        /\ calc.rec_df[j].Energy_TDN = << "Deficit", 100 >>

\* the herd has rows and their DMI adds up to zero
ZeroDmiHerd ==
    LET reqs == HerdReqs(group_data, 1, ambient_temp)
    IN  reqs # << >> /\ total_dmi(reqs) = 0

\* C4 (as claimed): whenever the block has run on a herd with rows whose
\* total DMI is zero, it ran through and every row's allocated DCP, TDN and ME
\* supply is zero.
C4_ZeroDmiGuarded ==
    (calc # NotRun /\ ZeroDmiHerd) =>
        /\ calc.fault = "none"
        /\ \A i \in 1..Len(calc.df_eval) :
            /\ calc.df_eval[i].DCP_Sup_g = 0
            /\ calc.df_eval[i].TDN_Sup_kg = 0
            /\ calc.df_eval[i].ME_Sup_Mcal = 0

\* what the block does there instead: it ends in the division fault
C4_ZeroDmiFaults == (calc # NotRun /\ ZeroDmiHerd) => calc.fault = "ZeroDivisionError"

\* the per-animal water before the temperature term, in 0.0001 L, as claimed:
\* maintenance, plus the milk row's water per kg of milk for lactating cows
ClaimedBaseWater(q) ==
    IF q.group = "Lactating Cows"
    THEN MAINTENANCE_REQ[q.group].Water_L * 10000
            + MILK_REQUIREMENTS[q.sub_group.fat].Water_L * q.sub_group.milk * 100
    ELSE MAINTENANCE_REQ[q.group].Water_L * 10000

\* C6: at an ambient temperature of 25 degrees or less the water requirement
\* of every sub-group is its per-animal base water times its count, with no
\* temperature term.
C6_NoWaterPenaltyUpTo25 ==
    (calc.fault = "none" /\ calc.ambient_temp <= 250) =>
        \A i \in 1..Len(calc.reqs) :
            calc.reqs[i].req_water = ClaimedBaseWater(calc.reqs[i]) * calc.reqs[i].sub_group.count

\* at exactly 25 degrees, a lactating and another sub-group
C6_Witness ==
    /\ calc.fault = "none"
    /\ calc.ambient_temp = 250
    /\ \E i, j \in 1..Len(calc.reqs) :
        /\ calc.reqs[i].group = "Lactating Cows"
        /\ calc.reqs[j].group # "Lactating Cows"
        /\ calc.reqs[i].req_water = ClaimedBaseWater(calc.reqs[i]) * calc.reqs[i].sub_group.count

\* the temperature term as claimed: ((temp - 25) / 4) * rate * count above 25
ClaimedPenalty(q, temp) ==
    IF temp > 250
    THEN (temp - 250) * (IF q.group = "Lactating Cows" THEN 65 ELSE 30) * q.sub_group.count * 25
    ELSE 0

ClaimedFactor(q) == IF q.sub_group.dim <= 21 THEN 12 ELSE 10

\* the cow of the scenario: 450 kg, 10 kg milk, 5% fat, DIM 60
ScenarioCow == [weight |-> 450, milk |-> 100, fat |-> 50, dim |-> 60, count |-> 1]

RequirementAsClaimed(q, temp) ==
    LET m == MAINTENANCE_REQ[q.group]
        n == q.sub_group.count
    IN  /\ q.req_water = ClaimedBaseWater(q) * n + ClaimedPenalty(q, temp)
        /\ IF q.group = "Lactating Cows"
           THEN LET r    == MILK_REQUIREMENTS[q.sub_group.fat]
                    milk == q.sub_group.milk
                IN  /\ q.req_DCP = (m.DCP_g * 100 + r.DCP_g * milk * 10) * n * ClaimedFactor(q)
                    /\ q.req_TDN = (m.TDN_kg * 100 + r.TDN_kg * milk) * n * ClaimedFactor(q)
                    /\ q.req_ME = (m.ME_Mcal * 100 + r.ME_Mcal * milk) * n * ClaimedFactor(q)
           ELSE /\ q.req_DCP = m.DCP_g * n * 1000
                /\ q.req_TDN = m.TDN_kg * n * 1000
                /\ q.req_ME = m.ME_Mcal * n * 1000
        /\ (q.sub_group = ScenarioCow /\ temp = 300) =>
                (q.req_DCP = 810000 /\ q.req_water = 1181250)

\* C8: a lactating sub-group requires (maintenance + milk row x milk) x count
\* x periparturient factor of DCP, TDN and ME and (maintenance water + row
\* water x milk) x count + penalty of water; any other sub-group requires
\* maintenance x count, with the penalty at rate 3.  One 450 kg cow, 10 kg
\* milk, 5% fat, DIM 60 at 30 degrees requires 810 g DCP and 118.125 L.
C8_RequirementFormula ==
    calc.fault = "none" =>
        \A i \in 1..Len(calc.reqs) : RequirementAsClaimed(calc.reqs[i], calc.ambient_temp)

\* the scenario cow at 30 degrees next to a sub-group of another group
C8_Witness ==
    /\ calc.fault = "none"
    /\ calc.ambient_temp = 300
    /\ \E i, j \in 1..Len(calc.reqs) :
        /\ calc.reqs[i].sub_group = ScenarioCow
        /\ calc.reqs[i].req_DCP = 810000
        /\ calc.reqs[i].req_water = 1181250
        /\ calc.reqs[j].group # "Lactating Cows"
        /\ calc.reqs[j].req_water > ClaimedBaseWater(calc.reqs[j]) * calc.reqs[j].sub_group.count

(***************************************************************************)
(* Claims on the requirement of one sub-group (ReqSpec)                    *)
(***************************************************************************)

BothRun == req_result.first # NotRun /\ req_result.second # NotRun

SameButDim(a, b) ==
    /\ a.group = "Lactating Cows" /\ b.group = "Lactating Cows"
    /\ a.temp = b.temp
    /\ a.sub_group.weight = b.sub_group.weight
    /\ a.sub_group.count = b.sub_group.count
    /\ a.sub_group.milk = b.sub_group.milk
    /\ a.sub_group.fat = b.sub_group.fat

\* C5: of two lactating sub-groups equal in weight, count, milk and fat and
\* evaluated at the same temperature, one with DIM <= 21 and one with DIM >
\* 21, the first requires exactly 1.2 times the DCP, TDN and ME of the second
\* and the same water.
C5_PeriparturientFactor ==
    ( /\ BothRun
      /\ SameButDim(req_pair.first, req_pair.second)
      /\ req_pair.first.sub_group.dim <= 21
      /\ req_pair.second.sub_group.dim > 21 ) =>
        /\ 10 * req_result.first.req_DCP = 12 * req_result.second.req_DCP
        /\ 10 * req_result.first.req_TDN = 12 * req_result.second.req_TDN
        /\ 10 * req_result.first.req_ME = 12 * req_result.second.req_ME
        /\ req_result.first.req_water = req_result.second.req_water

\* DIM 21 against DIM 22, both evaluated above 25 degrees
C5_Witness ==
    /\ BothRun
    /\ SameButDim(req_pair.first, req_pair.second)
    /\ req_pair.first.sub_group.dim = 21
    /\ req_pair.second.sub_group.dim = 22
    /\ req_pair.first.temp = 300
    /\ req_result.second.req_DCP > 0
    /\ 10 * req_result.first.req_DCP = 12 * req_result.second.req_DCP

\* C7: of two evaluations of the same sub-group at temperatures t1 < t2, both
\* above 25 degrees, the one at t2 requires strictly more water.
C7_WaterIncreasesWithTemp ==
    ( /\ BothRun
      /\ req_pair.first.group = req_pair.second.group
      /\ req_pair.first.sub_group = req_pair.second.sub_group
      /\ 250 < req_pair.first.temp
      /\ req_pair.first.temp < req_pair.second.temp ) =>
        req_result.first.req_water < req_result.second.req_water

\* a sub-group that is not lactating at 26 and at 30 degrees
C7_Witness ==
    /\ BothRun
    /\ req_pair.first.group = "Adult Bulls"
    /\ req_pair.first.sub_group = req_pair.second.sub_group
    /\ req_pair.first.group = req_pair.second.group
    /\ req_pair.first.temp = 260
    /\ req_pair.second.temp = 300
    /\ req_result.first.req_water < req_result.second.req_water

(***************************************************************************)
(* Claims on the session (Spec)                                            *)
(***************************************************************************)

\* the three conditions of the claim, on the inputs of the run
NothingToCalculate ==
    \/ total_animals = 0
    \/ selected_fodders = {}
    \/ \A f \in selected_fodders : fodder_amounts[f] = 0

\* C3: a click on calculate with no animal, no fodder selected or only zero
\* amounts is rejected: the run shows a validation error and no results,
\* writes nothing to the store and leaves calculated, calculation_data (and
\* the farmer id) as they were.
C3_RejectedCalculationChangesNothing ==
    [][ (page'.clicked = "calculate" /\ NothingToCalculate) =>
            /\ page'.messages # {}
            /\ page'.messages \subseteq ValidationErrors
            /\ page'.sections = {}
            /\ UNCHANGED << calculated, calculation_data, db, farmer_id, calc >> ]_vars

\* a calculation rejected for zero amounts, with an animal present and an
\* earlier result still stored
C3_Witness ==
    /\ page.clicked = "calculate"
    /\ page.messages = {"Please enter at least one fodder amount greater than 0."}
    /\ total_animals > 0
    /\ Cardinality(selected_fodders) = 2
    /\ calculated
    /\ db # << >>

\* the result of the calculation block on the present inputs, as stored
ExpectedData ==
    Snapshot(Calculation(group_data, fodder_amounts, water_available, ambient_temp, total_animals))

\* C9: when the write to the store fails during a calculation, the error is
\* shown and the result is kept: calculated is true, calculation_data holds the
\* table, the recommendations and the totals of that calculation, and the run
\* displays them.
C9_StoreFailureKeepsResult ==
    (page.clicked = "calculate" /\ "Error saving to Firebase" \in page.messages) =>
        /\ calculated
        /\ calculation_data = ExpectedData
        /\ Len(calculation_data.df_eval) > 0
        /\ Len(calculation_data.rec_df) = Len(calculation_data.df_eval)
        /\ {"summary", "evaluation", "recommendations"} \subseteq page.sections

\* the first calculation of the session, its write failed: nothing in the
\* store, the result stored and shown
C9_Witness ==
    /\ page.clicked = "calculate"
    /\ "Error saving to Firebase" \in page.messages
    /\ db = << >>
    /\ farmer_id = 0
    /\ calculated
    /\ "evaluation" \in page.sections
    /\ "rating" \in page.sections

\* C10 (as claimed): when the report cannot be rendered, the run still shows
\* the stored evaluation and goes on to the rating controls.
C10_ReportFailureNonBlocking ==
    ("exception: generate_pdf_report" \in page.messages) =>
        /\ calculated
        /\ "evaluation" \in page.sections
        /\ "rating" \in page.sections

\* what holds instead: the evaluation stays stored and shown, the run ends at
\* the report, without download button and rating controls
C10_ReportFailureEndsRun ==
    ("exception: generate_pdf_report" \in page.messages) =>
        /\ calculated
        /\ calculation_data # << >>
        /\ "evaluation" \in page.sections
        /\ "download" \notin page.sections
        /\ "rating" \notin page.sections

\* the last run was a calculation that ran through and showed its results
CalculationShown == page.clicked = "calculate" /\ "evaluation" \in page.sections

\* C11: a calculation reads the inputs as they are and gives the table, the
\* recommendations and the totals that the calculation block yields on those
\* inputs alone, whatever the session did before; so a calculate clicked right
\* after a calculation, on inputs no run in between has changed, stores the
\* same result again.
C11_CalculationIdempotent ==
    [][ (page'.clicked = "calculate" /\ "evaluation" \in page'.sections) =>
            /\ UNCHANGED << group_data, fodder_amounts, water_available, ambient_temp >>
            /\ calculation_data' = ExpectedData
            /\ CalculationShown => calculation_data' = calculation_data ]_vars

\* two calculations on the same inputs: the first wrote the document of these
\* inputs, the write of the second failed, the result is that of the inputs
C11_Witness ==
    /\ CalculationShown
    /\ "Error saving to Firebase" \in page.messages
    /\ farmer_id = 1
    /\ db = (1 :> data_to_save)
    /\ calculation_data = ExpectedData
    /\ Len(calculation_data.df_eval) > 0

(***************************************************************************)
(* Further claims on the calculation block (CalcSpec)                      *)
(***************************************************************************)

\* C12: in every evaluation table, the row of a sub-group with count > 0 and
\* weight > 0 stores a DMI above zero, and what it stores is (DMI percent /
\* 100) x weight x count to the 0.01 kg of the column.
C12_StoredDmiPositive ==
    calc.fault = "none" =>
        \A i \in 1..Len(calc.df_eval) :
            LET sg == calc.reqs[i].sub_group
                g  == calc.reqs[i].group
            IN  (sg.count > 0 /\ sg.weight > 0) =>
                    /\ calc.df_eval[i].DMI_kg > 0
                    /\ Abs(10 * calc.df_eval[i].DMI_kg - DMI_PERCENT[g] * sg.weight * sg.count) <= 5

\* the lightest animal a form accepts, one calf of 20 kg, stores 0.40 kg; the
\* row next to it has weight 0 and stores 0
C12_Witness ==
    /\ calc.fault = "none"
    /\ \E i, j \in 1..Len(calc.df_eval) :
        /\ calc.reqs[i].group = "Calves (0-3 mo)"
        /\ calc.reqs[i].sub_group = [weight |-> 20, count |-> 1]
        /\ calc.df_eval[i].DMI_kg = 40
        /\ calc.reqs[j].sub_group.weight = 0
        /\ calc.df_eval[j].DMI_kg = 0

\* the seven groups in their fixed order, by displayed name
SevenGroups ==
    << << "Calves (0-3 mo)", "Calves" >>,
       << "Growing Calves (3-12 mo)", "Growing Calves" >>,
       << "Heifers (12-24 mo)", "Heifers" >>,
       << "Pregnant Heifers (last 2 mo)", "Pregnant Heifers" >>,
       << "Dry Cows", "Dry Cows" >>,
       << "Lactating Cows", "Lactating Cows" >>,
       << "Adult Bulls", "Adult Bulls" >> >>

\* the stored sub-groups with count > 0, from position i of the k-th group on:
\* the displayed name of the group, the position in its list, the entry
RECURSIVE StoredSubGroups(_, _, _)
StoredSubGroups(gd, k, i) ==
    IF k > 7 THEN << >>
    ELSE IF i > Len(gd[SevenGroups[k][1]]) THEN StoredSubGroups(gd, k + 1, 1)
    ELSE (IF gd[SevenGroups[k][1]][i].count > 0
          THEN << << SevenGroups[k][2], i, gd[SevenGroups[k][1]][i] >> >>
          ELSE << >>)
         \o StoredSubGroups(gd, k, i + 1)

\* C16: after a calculation that ran through, the evaluation table has one row
\* for each stored sub-group with count > 0, in the order of the seven groups
\* and then of the position in the group's list, and the recommendation list
\* has as many entries, the i-th with the label of the i-th row.
C16_OneRowPerSubGroupInOrder ==
    calc.fault = "none" =>
        LET stored == StoredSubGroups(group_data, 1, 1)
        IN  /\ Len(calc.df_eval) = Len(stored)
            /\ Len(calc.rec_df) = Len(stored)
            /\ \A n \in 1..Len(stored) :
                /\ calc.df_eval[n].Group[1] = stored[n][1]
                /\ calc.df_eval[n].Group[2] = stored[n][2]
                /\ calc.df_eval[n].Count = stored[n][3].count
                /\ calc.df_eval[n].Avg_Weight_kg = stored[n][3].weight
                /\ calc.rec_df[n].Group = calc.df_eval[n].Group

\* a lactating sub-group and a calf: the calf's row comes first
C16_Witness ==
    /\ calc.fault = "none"
    /\ Len(calc.df_eval) = 2
    /\ Len(calc.rec_df) = 2
    /\ calc.df_eval[1].Group = << "Calves", 1, 20 >>
    /\ calc.df_eval[2].Group[1] = "Lactating Cows"
    /\ calc.rec_df[2].Group = calc.df_eval[2].Group

\* an entry with count 0 has no row, and the entry after it keeps its position
C16_SkippedEntry ==
    /\ calc.fault = "none"
    /\ Len(group_data["Growing Calves (3-12 mo)"]) = 2
    /\ group_data["Growing Calves (3-12 mo)"][1].count = 0
    /\ Len(calc.df_eval) = 1
    /\ calc.df_eval[1].Group = << "Growing Calves", 2, 101 >>

(***************************************************************************)
(* Claims on a feed the table does not list (FeedSpec)                     *)
(***************************************************************************)

\* a feed with a quantity above 0 that the table does not list
UnknownFeedFed == \E f \in DOMAIN fodder_amounts : fodder_amounts[f] > 0 /\ f \notin DOMAIN fodder_df

\* C13: a calculation that meets a fed feed absent from the table aborts with
\* an error: it yields no totals, table or recommendations, shows no result,
\* writes nothing to the store and leaves calculated and calculation_data as
\* they were.
C13_UnknownFeedFailsLoudly ==
    [][ (page'.clicked = "calculate" /\ total_animals > 0 /\ UnknownFeedFed) =>
            /\ calc' = [ fault |-> "IndexError" ]
            /\ page'.messages = {"exception: IndexError"}
            /\ page'.sections = {}
            /\ UNCHANGED << calculated, calculation_data, db, farmer_id >> ]_vars

\* the abort after an earlier calculation: its result is still stored, next to
\* a listed feed with a quantity above 0
C13_Witness ==
    /\ page.clicked = "calculate"
    /\ page.messages = {"exception: IndexError"}
    /\ calc = [ fault |-> "IndexError" ]
    /\ fodder_amounts = [ f \in FeedNames |-> 45 ]
    /\ calculated
    /\ calculation_data # << >>
    /\ calculation_data.fodder_amounts # fodder_amounts

(***************************************************************************)
(* Further claims on the requirement of one sub-group (ReqSpec)            *)
(***************************************************************************)

\* the requirement q is the one that the milk row r gives for its sub-group
UsesMilkRow(q, r, temp) ==
    LET m == MAINTENANCE_REQ["Lactating Cows"]
        n == q.sub_group.count
        milk == q.sub_group.milk
    IN  /\ q.req_DCP = (m.DCP_g * 100 + r.DCP_g * milk * 10) * n * ClaimedFactor(q)
        /\ q.req_TDN = (m.TDN_kg * 100 + r.TDN_kg * milk) * n * ClaimedFactor(q)
        /\ q.req_ME = (m.ME_Mcal * 100 + r.ME_Mcal * milk) * n * ClaimedFactor(q)
        /\ q.req_water = (m.Water_L * 100 + r.Water_L * milk) * n * 100 + ClaimedPenalty(q, temp)

\* two lactating sub-groups that differ at most in the fat percent
SameButFat(a, b) ==
    /\ a.group = "Lactating Cows" /\ b.group = "Lactating Cows"
    /\ a.temp = b.temp
    /\ a.sub_group.weight = b.sub_group.weight
    /\ a.sub_group.count = b.sub_group.count
    /\ a.sub_group.milk = b.sub_group.milk
    /\ a.sub_group.dim = b.sub_group.dim

\* C14: a lactating sub-group whose fat percent is one of 3, 4, 5, 6, 7, 8
\* takes the milk row of that percent; one whose fat percent is none of them
\* takes the 5% row, so it requires what the same sub-group at 5% requires.
C14_FatFallsBackToFivePercent ==
    (BothRun /\ req_pair.first.group = "Lactating Cows") =>
        /\ UsesMilkRow(req_result.first,
                       IF req_pair.first.sub_group.fat \in {30, 40, 50, 60, 70, 80}
                       THEN MILK_REQUIREMENTS[req_pair.first.sub_group.fat]
                       ELSE MILK_REQUIREMENTS[50],
                       req_pair.first.temp)
        /\ ( /\ SameButFat(req_pair.first, req_pair.second)
              /\ req_pair.first.sub_group.fat \notin {30, 40, 50, 60, 70, 80}
              /\ req_pair.second.sub_group.fat = 50 ) =>
                /\ req_result.first.req_DCP = req_result.second.req_DCP
                /\ req_result.first.req_TDN = req_result.second.req_TDN
                /\ req_result.first.req_ME = req_result.second.req_ME
                /\ req_result.first.req_water = req_result.second.req_water

\* a cow at 4.5% fat next to the same cow at 5%: equal requirements, which
\* differ from those of the 4% row
C14_Witness ==
    /\ BothRun
    /\ req_pair.first.sub_group = [weight |-> 450, milk |-> 100, fat |-> 45, dim |-> 60, count |-> 1]
    /\ req_pair.second.sub_group = [weight |-> 450, milk |-> 100, fat |-> 50, dim |-> 60, count |-> 1]
    /\ req_pair.first.temp = req_pair.second.temp
    /\ req_result.first.req_DCP = 810000
    /\ req_result.first.req_DCP = req_result.second.req_DCP
    /\ req_result.first.req_water = req_result.second.req_water

\* a cow at 4% fat takes the 4% row
C14_TabulatedRow ==
    /\ BothRun
    /\ req_pair.first.group = "Lactating Cows"
    /\ req_pair.first.sub_group.fat = 40
    /\ UsesMilkRow(req_result.first, MILK_REQUIREMENTS[40], req_pair.first.temp)
    /\ req_result.first.req_DCP = 750000

(***************************************************************************)
(* Further claims on the session (Spec)                                    *)
(***************************************************************************)

\* a star is clicked and a document of the store changes
RatingStored == page'.clicked = "star" /\ db' # db

\* C15 (as claimed): a rating given right after a calculation goes to the
\* document which that calculation wrote: the calculation did write one (the
\* newest of the store, "Farmer N" with N the number of documents) and the
\* rating changes that document and no other.
C15_RatingOnLatestCalculation ==
    [][ (CalculationShown /\ RatingStored) =>
            /\ "Error saving to Firebase" \notin page.messages
            /\ farmer_id = Cardinality(DOMAIN db)
            /\ \E i \in Stars : db' = [ db EXCEPT ![farmer_id] = ("rating" :> i) @@ @ ] ]_vars

\* what holds instead: a rating goes to the document named by the session's
\* farmer_id, the one written by the last calculation whose write succeeded
C15_RatingOnStoredFarmerId ==
    [][ RatingStored =>
            /\ farmer_id \in DOMAIN db
            /\ UNCHANGED farmer_id
            /\ \E i \in Stars : db' = [ db EXCEPT ![farmer_id] = ("rating" :> i) @@ @ ] ]_vars

\* a rating stored in "Farmer 1" while the last calculation could not write
C15_StaleDocumentRated ==
    /\ page.clicked = "star"
    /\ "Thank you for your rating" \in page.messages
    /\ farmer_id = 1
    /\ "rating" \in DOMAIN db[1]

====
